---------------------------- MODULE Spec2Model ----------------------------
(***************************************************************************)
(* The per-interface IGMP state of pkg/tcpip/network/ipv4/igmp.go: the     *)
(* igmpState adapter (the IGMPv1-router-present flag and its job, the      *)
(* packets it writes) composed with the generic multicast protocol engine  *)
(* it forwards to.  The adapter is translated from igmp.go; the engine     *)
(* (ip.GenericMulticastProtocolState), the jobs (tcpip.Job) and the        *)
(* endpoint's Enable/Disable are not part of the sources at hand and       *)
(* follow sections 3 to 5 of the specification.                            *)
(*                                                                         *)
(* Time is discrete: the clock advances in ticks of 10 s, the largest      *)
(* step that divides every duration of igmp.go (400 s, 10 s, 10 s).  A     *)
(* pending timer is the number of ticks left until it is due.  A job is    *)
(* the sequence of its pending timers, so that Schedule without Cancel     *)
(* shows as a second pending timer.                                        *)
(***************************************************************************)
EXTENDS Integers, Sequences, FiniteSets, TLC

VARIABLES
    igmp,       \* the igmpState record (fields below)
    epEnabled,  \* igmp.ep.Enabled(): whether the IPv4 endpoint is enabled
    event,      \* the handler that ran last, its inputs and its return value
    respDue,    \* per group: ticks left until t + d of the query that moved
                \* it from IdleMember to DelayingMember (-1: none)
    option,     \* header.IPv4OptionsSerializer: the options to serialize
    buf,        \* the buffer Serialize writes into
    serializedLength, \* what Serialize returned (-1: not called yet)
    v1Clock,    \* age: ticks since the most recent IGMPv1 query was handled
                \* (-1: none yet; counted up to 400 s); found: what that
                \* query found, if it is the step just taken
    armedV1     \* per group: the flag (0 or 1) when its pending delay timer
                \* was scheduled, kept through the step in which the timer
                \* fires (-1: no timer)

(* The variables of the options serializer, which igmpState never touches. *)
optVars == <<option, buf, serializedLength>>

vars == <<igmp, epEnabled, event, respDue, option, buf, serializedLength, v1Clock,
         armedV1>>

---------------------------------------------------------------------------
(* Bounds of the model. *)

(* The joins outstanding on the interface, over all groups. *)
MaxJoins == 2

(* The options of one list given to the serializer. *)
MaxOptions == 4

---------------------------------------------------------------------------
(* Constants of igmp.go. *)

(* Durations, in seconds. *)
igmpV1PresentDefault == 0
v1RouterPresentTimeout == 400
v1MaxRespTime == 10
UnsolicitedReportIntervalMax == 10

(* One tick of the clock, in seconds, and a duration in ticks. *)
TickSeconds == v1MaxRespTime

Ticks(seconds) == seconds \div TickSeconds

IPv4Any == "0.0.0.0"
IPv4AllSystems == "IPv4AllSystems"
IPv4AllRoutersGroup == "IPv4AllRoutersGroup"

IGMPMembershipQuery == "MembershipQuery"
IGMPv1MembershipReport == "V1MembershipReport"
IGMPv2MembershipReport == "V2MembershipReport"
IGMPLeaveGroup == "LeaveGroup"
IGMPUnrecognized == "Unrecognized"

ErrNil == "nil"
ErrBadLocalAddress == "ErrBadLocalAddress"

(* The max response times queries carry, in ticks: 0 (an IGMPv1 query) up  *)
(* to 10 s.                                                                *)
MaxQueryResp == Ticks(v1MaxRespTime)

(* The multicast groups the host joins and hears about. *)
Groups == {"G1", "G2"}

(* The orders in which a range over the membership map visits the groups. *)
Orders == {o \in [1..Cardinality(Groups) -> Groups] :
             \A i, j \in 1..Cardinality(Groups) : i # j => o[i] # o[j]}

(* The largest value the random source is asked for. *)
MaxRand ==
    LET a == IF Ticks(v1MaxRespTime) > MaxQueryResp
             THEN Ticks(v1MaxRespTime) ELSE MaxQueryResp
    IN  IF Ticks(UnsolicitedReportIntervalMax) > a
        THEN Ticks(UnsolicitedReportIntervalMax) ELSE a

---------------------------------------------------------------------------
(* Jobs (tcpip.Job): the pending timers of one job. *)

Cancel(job) == <<>>

Schedule(job, d) == Append(job, d)

Pending(job) == Len(job) > 0

Due(job) == \E i \in 1..Len(job) : job[i] = 0

(* The job after one of its due timers has fired. *)
Fired(job) ==
    LET i == CHOOSE k \in 1..Len(job) : job[k] = 0
    IN  [k \in 1..(Len(job) - 1) |-> IF k < i THEN job[k] ELSE job[k + 1]]

Elapse(job) == [k \in 1..Len(job) |-> job[k] - 1]

---------------------------------------------------------------------------
(* igmpState: the flag and the packets it writes. *)

v1Present(s) == s.igmpV1Present = 1

setV1Present_NeverClears(s, v) == [s EXCEPT !.igmpV1Present = 1]

setV1Present(s, v) == [s EXCEPT !.igmpV1Present = IF v THEN 1 ELSE 0]

(* writePacket hands the packet to nic.WritePacketToRemote; nicOk is the   *)
(* NIC's answer.  tx holds the packets the running handler has written:    *)
(* an entry with ok counts in PacketsSent.<type>, one without in           *)
(* PacketsSent.Dropped.                                                    *)
writePacket(s, destAddress, groupAddress, igmpType, nicOk, via) ==
    [s EXCEPT !.tx = Append(@, [dst   |-> destAddress,
                                group |-> groupAddress,
                                type  |-> igmpType,
                                ok    |-> nicOk,
                                via   |-> via])]

SendReport_AlwaysV2(s, groupAddress, nicOk) ==
    writePacket(s, groupAddress, groupAddress, IGMPv2MembershipReport, nicOk,
                "SendReport")

SendReport_ToAllSystems(s, groupAddress, nicOk) ==
    LET igmpType == IF v1Present(s) THEN IGMPv1MembershipReport
                                    ELSE IGMPv2MembershipReport
    IN  writePacket(s, IPv4AllSystems, groupAddress, igmpType, nicOk, "SendReport")

(* The version is the one of the flag when the group's timer was          *)
(* scheduled.                                                              *)
SendReport_VersionWhenArmed(s, groupAddress, nicOk) ==
    LET v1 == IF armedV1[groupAddress] = -1 THEN v1Present(s)
              ELSE armedV1[groupAddress] = 1
        igmpType == IF v1 THEN IGMPv1MembershipReport ELSE IGMPv2MembershipReport
    IN  writePacket(s, groupAddress, groupAddress, igmpType, nicOk, "SendReport")

SendReport(s, groupAddress, nicOk) ==
    LET igmpType == IF v1Present(s) THEN IGMPv1MembershipReport
                                    ELSE IGMPv2MembershipReport
    IN  writePacket(s, groupAddress, groupAddress, igmpType, nicOk, "SendReport")

SendLeave_ToGroup(s, groupAddress, nicOk) ==
    IF v1Present(s)
    THEN s
    ELSE writePacket(s, groupAddress, groupAddress, IGMPLeaveGroup, nicOk,
                     "SendLeave")

SendLeave_NoV1Check(s, groupAddress, nicOk) ==
    writePacket(s, IPv4AllRoutersGroup, groupAddress, IGMPLeaveGroup, nicOk,
                "SendLeave")

SendLeave(s, groupAddress, nicOk) ==
    IF v1Present(s)
    THEN s
    ELSE writePacket(s, IPv4AllRoutersGroup, groupAddress, IGMPLeaveGroup, nicOk,
                     "SendLeave")

(* The increments of PacketsSent.<igmpType> and of PacketsSent.Dropped the  *)
(* handler that ran last has made.                                          *)
SentCount(s, igmpType) ==
    Cardinality({i \in 1..Len(s.tx) : s.tx[i].type = igmpType /\ s.tx[i].ok})

DroppedCount(s) == Cardinality({i \in 1..Len(s.tx) : ~s.tx[i].ok})

---------------------------------------------------------------------------
(* The generic multicast protocol engine, per group:                       *)
(*   state, joinCount, lastReporter, delayTimer.                           *)

(* The options igmpState.init gives the engine. *)
MaxUnsolicitedReportDelay == Ticks(UnsolicitedReportIntervalMax)

NoGroup == [state        |-> "NonMember",
            joinCount    |-> 0,
            lastReporter |-> FALSE,
            delayTimer   |-> <<>>]

(* A delay drawn from [0, bound] with the random source's value rand. *)
RandomDelay(rand, bound) == rand % (bound + 1)

(* NonMember, Join: send unsolicited report, schedule the delay,           *)
(* lastReporter <- true, DelayingMember.                                   *)
JoinAction(s, g, rand, nicOk) ==
    LET s1 == SendReport(s, g, nicOk)
    IN  [s1 EXCEPT !.engine[g] =
            [@ EXCEPT !.state = "DelayingMember",
                      !.lastReporter = TRUE,
                      !.delayTimer =
                          Schedule(@, RandomDelay(rand, MaxUnsolicitedReportDelay))]]

(* Leave from DelayingMember or IdleMember: cancel the timer, send a leave *)
(* if this host reported last, NonMember.                                  *)
LeaveAction(s, g, nicOk) ==
    IF s.engine[g].state = "NonMember"
    THEN s
    ELSE LET s1 == IF s.engine[g].lastReporter THEN SendLeave(s, g, nicOk) ELSE s
         IN  [s1 EXCEPT !.engine[g] =
                 [@ EXCEPT !.state = "NonMember", !.delayTimer = Cancel(@)]]

JoinGroup_EveryJoinInitializes(s, g, dontInitialize, rand, nicOk) ==
    LET s1 == [s EXCEPT !.engine[g].joinCount = @ + 1]
    IN  IF ~dontInitialize /\ s.opts.Enabled
        THEN JoinAction(s1, g, rand, nicOk)
        ELSE s1

JoinGroup(s, g, dontInitialize, rand, nicOk) ==
    LET first == s.engine[g].joinCount = 0
        s1 == [s EXCEPT !.engine[g].joinCount = @ + 1]
    IN  IF first /\ ~dontInitialize /\ s.opts.Enabled
        THEN JoinAction(s1, g, rand, nicOk)
        ELSE s1

(* LeaveGroup answers whether the group was joined. *)
LeaveGroupOk(s, g) == s.engine[g].joinCount > 0

LeaveGroup(s, g, nicOk) ==
    IF s.engine[g].joinCount = 0
    THEN s
    ELSE IF s.engine[g].joinCount > 1
         THEN [s EXCEPT !.engine[g].joinCount = @ - 1]
         ELSE LET s1 == IF s.opts.Enabled THEN LeaveAction(s, g, nicOk) ELSE s
              IN  [s1 EXCEPT !.engine[g] = NoGroup]

IsLocallyJoined(s, g) == s.engine[g].joinCount > 0

QueryGroup_NoCancel(s, g, maxResp, rand) ==
    LET d == RandomDelay(rand, maxResp)
        r == s.engine[g]
    IN  CASE r.state = "IdleMember" ->
                [s EXCEPT !.engine[g] =
                    [@ EXCEPT !.state = "DelayingMember",
                              !.delayTimer = Schedule(@, d)]]
          [] r.state = "DelayingMember"
               /\ \E i \in 1..Len(r.delayTimer) : r.delayTimer[i] > d ->
                [s EXCEPT !.engine[g].delayTimer = Schedule(@, d)]
          [] OTHER -> s

QueryGroup_AlwaysReschedule(s, g, maxResp, rand) ==
    LET d == RandomDelay(rand, maxResp)
        r == s.engine[g]
    IN  CASE r.state \in {"IdleMember", "DelayingMember"} ->
                [s EXCEPT !.engine[g] =
                    [@ EXCEPT !.state = "DelayingMember",
                              !.delayTimer = Schedule(Cancel(@), d)]]
          [] OTHER -> s

(* Query for one group: IdleMember schedules rand(0, maxResp);             *)
(* DelayingMember reschedules when the new deadline is sooner.             *)
QueryGroup(s, g, maxResp, rand) ==
    LET d == RandomDelay(rand, maxResp)
        r == s.engine[g]
    IN  CASE r.state = "IdleMember" ->
                [s EXCEPT !.engine[g] =
                    [@ EXCEPT !.state = "DelayingMember",
                              !.delayTimer = Schedule(Cancel(@), d)]]
          [] r.state = "DelayingMember"
               /\ \E i \in 1..Len(r.delayTimer) : r.delayTimer[i] > d ->
                [s EXCEPT !.engine[g].delayTimer = Schedule(Cancel(@), d)]
          [] OTHER -> s

(* A general query visits every group; it writes no packet and treats     *)
(* each group on its own, so the order of the visit does not show.         *)
RECURSIVE QueryAll(_, _, _, _)
QueryAll(s, todo, maxResp, rand) ==
    IF todo = {}
    THEN s
    ELSE LET g == CHOOSE x \in todo : TRUE
         IN  QueryAll(QueryGroup(s, g, maxResp, rand[g]), todo \ {g}, maxResp, rand)

HandleQuery(s, groupAddress, maxResp, rand) ==
    IF ~s.opts.Enabled
    THEN s
    ELSE IF groupAddress = IPv4Any
         THEN QueryAll(s, Groups, maxResp, rand)
         ELSE IF groupAddress \in Groups
              THEN QueryGroup(s, groupAddress, maxResp, rand[groupAddress])
              ELSE s

(* DelayingMember, observed peer report: cancel delay, lastReporter <-     *)
(* false, IdleMember.                                                      *)
HandleReport(s, groupAddress) ==
    IF s.opts.Enabled /\ groupAddress \in Groups
       /\ s.engine[groupAddress].state = "DelayingMember"
    THEN [s EXCEPT !.engine[groupAddress] =
            [@ EXCEPT !.state = "IdleMember",
                      !.lastReporter = FALSE,
                      !.delayTimer = Cancel(@)]]
    ELSE s

(* DelayingMember, delay fires: send report, lastReporter <- true,         *)
(* IdleMember.                                                             *)
DelayedReport(s, g, nicOk) ==
    LET s1 == SendReport(s, g, nicOk)
    IN  [s1 EXCEPT !.engine[g] =
            [@ EXCEPT !.state = "IdleMember",
                      !.lastReporter = TRUE,
                      !.delayTimer = Fired(@)]]

RECURSIVE MakeAllNonMemberFrom(_, _, _, _)
MakeAllNonMemberFrom(s, order, i, nicOk) ==
    IF i > Len(order)
    THEN s
    ELSE MakeAllNonMemberFrom(LeaveAction(s, order[i], nicOk[order[i]]),
                              order, i + 1, nicOk)

MakeAllNonMember(s, order, nicOk) ==
    IF s.opts.Enabled THEN MakeAllNonMemberFrom(s, order, 1, nicOk) ELSE s

RECURSIVE InitializeGroupsFrom(_, _, _, _, _)
InitializeGroupsFrom(s, order, i, rand, nicOk) ==
    IF i > Len(order)
    THEN s
    ELSE LET g == order[i]
             s1 == IF s.engine[g].joinCount > 0 /\ s.engine[g].state = "NonMember"
                   THEN JoinAction(s, g, rand[g], nicOk[g])
                   ELSE s
         IN  InitializeGroupsFrom(s1, order, i + 1, rand, nicOk)

InitializeGroups(s, order, rand, nicOk) ==
    IF s.opts.Enabled THEN InitializeGroupsFrom(s, order, 1, rand, nicOk) ELSE s

---------------------------------------------------------------------------
(* igmpState: the handlers. *)

NoCall == [op |-> "none", group |-> IPv4Any, maxResp |-> 0]

init(opts) ==
    [opts          |-> opts,
     igmpV1Present |-> igmpV1PresentDefault,
     igmpV1Job     |-> <<>>,
     engine        |-> [g \in Groups |-> NoGroup],
     engineCall    |-> NoCall,
     tx            |-> <<>>]

igmpV1JobFires_KeepsFlag(s) == [s EXCEPT !.igmpV1Job = Fired(@)]

(* The callback of igmpV1Job. *)
igmpV1JobFires(s) ==
    setV1Present([s EXCEPT !.igmpV1Job = Fired(@)], FALSE)

handleMembershipQuery_NoCancel(s, groupAddress, maxRespTime, rand) ==
    LET v1 == maxRespTime = 0 /\ s.opts.Enabled
        s1 == IF v1
              THEN setV1Present(
                       [s EXCEPT !.igmpV1Job =
                           Schedule(@, Ticks(v1RouterPresentTimeout))],
                       TRUE)
              ELSE s
        effective == IF v1 THEN Ticks(v1MaxRespTime) ELSE maxRespTime
        s2 == [s1 EXCEPT !.engineCall = [op      |-> "HandleQuery",
                                         group   |-> groupAddress,
                                         maxResp |-> effective]]
    IN  HandleQuery(s2, groupAddress, effective, rand)

handleMembershipQuery_NoEnabledCheck(s, groupAddress, maxRespTime, rand) ==
    LET v1 == maxRespTime = 0
        s1 == IF v1
              THEN setV1Present(
                       [s EXCEPT !.igmpV1Job =
                           Schedule(Cancel(@), Ticks(v1RouterPresentTimeout))],
                       TRUE)
              ELSE s
        effective == IF v1 THEN Ticks(v1MaxRespTime) ELSE maxRespTime
        s2 == [s1 EXCEPT !.engineCall = [op      |-> "HandleQuery",
                                         group   |-> groupAddress,
                                         maxResp |-> effective]]
    IN  HandleQuery(s2, groupAddress, effective, rand)

(* The Cancel does not stop a callback whose timer is already due. *)
handleMembershipQuery_LateCancel(s, groupAddress, maxRespTime, rand) ==
    LET v1 == maxRespTime = 0 /\ s.opts.Enabled
        s1 == IF v1
              THEN setV1Present(
                       [s EXCEPT !.igmpV1Job =
                           Schedule(SelectSeq(@, LAMBDA d : d = 0),
                                    Ticks(v1RouterPresentTimeout))],
                       TRUE)
              ELSE s
        effective == IF v1 THEN Ticks(v1MaxRespTime) ELSE maxRespTime
        s2 == [s1 EXCEPT !.engineCall = [op      |-> "HandleQuery",
                                         group   |-> groupAddress,
                                         maxResp |-> effective]]
    IN  HandleQuery(s2, groupAddress, effective, rand)

handleMembershipQuery(s, groupAddress, maxRespTime, rand) ==
    LET v1 == maxRespTime = 0 /\ s.opts.Enabled
        s1 == IF v1
              THEN setV1Present(
                       [s EXCEPT !.igmpV1Job =
                           Schedule(Cancel(@), Ticks(v1RouterPresentTimeout))],
                       TRUE)
              ELSE s
        effective == IF v1 THEN Ticks(v1MaxRespTime) ELSE maxRespTime
        s2 == [s1 EXCEPT !.engineCall = [op      |-> "HandleQuery",
                                         group   |-> groupAddress,
                                         maxResp |-> effective]]
    IN  HandleQuery(s2, groupAddress, effective, rand)

handleMembershipReport_NoForward(s, groupAddress) == s

handleMembershipReport(s, groupAddress) ==
    HandleReport([s EXCEPT !.engineCall = [op      |-> "HandleReport",
                                           group   |-> groupAddress,
                                           maxResp |-> 0]],
                 groupAddress)

(* handleIGMP: valid says the header is long enough and the checksum       *)
(* matches.                                                                *)
handleIGMP(s, valid, igmpType, groupAddress, maxRespTime, rand) ==
    IF ~valid
    THEN s
    ELSE CASE igmpType = IGMPMembershipQuery ->
                handleMembershipQuery(s, groupAddress, maxRespTime, rand)
           [] igmpType \in {IGMPv1MembershipReport, IGMPv2MembershipReport} ->
                handleMembershipReport(s, groupAddress)
           [] OTHER -> s

joinGroup_InvertedHint(s, groupAddress, enabled, rand, nicOk) ==
    JoinGroup(s, groupAddress, enabled, rand, nicOk)

joinGroup_AlwaysInitialize(s, groupAddress, enabled, rand, nicOk) ==
    JoinGroup(s, groupAddress, FALSE, rand, nicOk)

joinGroup(s, groupAddress, enabled, rand, nicOk) ==
    JoinGroup(s, groupAddress, ~enabled, rand, nicOk)

isInGroup_ByState(s, groupAddress) == s.engine[groupAddress].state # "NonMember"

isInGroup(s, groupAddress) == IsLocallyJoined(s, groupAddress)

leaveGroupErr_AlwaysNil(s, groupAddress) == ErrNil

leaveGroupErr(s, groupAddress) ==
    IF LeaveGroupOk(s, groupAddress) THEN ErrNil ELSE ErrBadLocalAddress

leaveGroup(s, groupAddress, nicOk) == LeaveGroup(s, groupAddress, nicOk)

softLeaveAll_NoForward(s, order, nicOk) == s

softLeaveAll(s, order, nicOk) == MakeAllNonMember(s, order, nicOk)

initializeAll(s, order, rand, nicOk) == InitializeGroups(s, order, rand, nicOk)

---------------------------------------------------------------------------
(* header.IPv4OptionsSerializer: the options block of an IPv4 header.      *)

IPv4SerializableNOPOption == "NOP"
IPv4SerializableListEndOption == "ListEnd"
IPv4SerializableRouterAlertOption == "RouterAlert"

IPv4SerializableOption ==
    {IPv4SerializableNOPOption, IPv4SerializableListEndOption,
     IPv4SerializableRouterAlertOption}

(* The type byte of an option. *)
optionType(opt) ==
    CASE opt = IPv4SerializableNOPOption -> 1
      [] opt = IPv4SerializableListEndOption -> 0
      [] opt = IPv4SerializableRouterAlertOption -> 148

(* Router Alert carries a payload (its two-byte value, 0); NOP and         *)
(* End-of-list are the type byte alone.                                    *)
hasPayload(opt) == opt = IPv4SerializableRouterAlertOption

payloadOf(opt) == <<0, 0>>

(* A length is a uint8. *)
padIPv4OptionsLength(length) == (((length + 3) \div 4) * 4) % 256

RECURSIVE contentLength(_, _)
contentLength(s, i) ==
    IF i > Len(s)
    THEN 0
    ELSE (IF hasPayload(s[i]) THEN 2 + Len(payloadOf(s[i])) ELSE 1)
         + contentLength(s, i + 1)

Length(s) == padIPv4OptionsLength(contentLength(s, 1) % 256)

(* The bytes bs written into b from position pos on. *)
putBytes(b, pos, bs) ==
    [k \in 1..Len(b) |-> IF k >= pos /\ k < pos + Len(bs)
                         THEN bs[k - pos + 1] ELSE b[k]]

(* The loop of Serialize over the options from the i-th on: b is the       *)
(* buffer, total the bytes written so far.                                 *)
RECURSIVE serializeFrom(_, _, _, _)
serializeFrom(s, i, b, total) ==
    IF i > Len(s)
    THEN [b |-> b, total |-> total]
    ELSE IF hasPayload(s[i])
         THEN LET l == 2 + Len(payloadOf(s[i]))
              IN  serializeFrom(s, i + 1,
                      putBytes(b, total + 1,
                               <<optionType(s[i]), l>> \o payloadOf(s[i])),
                      total + l)
         ELSE serializeFrom(s, i + 1,
                  putBytes(b, total + 1, <<optionType(s[i])>>), total + 1)

Serialize_NoPadding(s, b) ==
    LET r == serializeFrom(s, 1, b, 0)
    IN  [b |-> r.b, n |-> padIPv4OptionsLength(r.total)]

(* Serialize writes the options, then zeroes up to the padded length, and  *)
(* returns the padded length.                                              *)
Serialize(s, b) ==
    LET r == serializeFrom(s, 1, b, 0)
        padded == padIPv4OptionsLength(r.total)
    IN  [b |-> putBytes(r.b, r.total + 1, [k \in 1..(padded - r.total) |-> 0]),
         n |-> padded]

---------------------------------------------------------------------------
(* The state machine. *)

NoEvent == [op |-> "init", group |-> IPv4Any, maxResp |-> 0, ret |-> ErrNil]

Ev(op, group, maxResp, ret) ==
    [op |-> op, group |-> group, maxResp |-> maxResp, ret |-> ret]

(* A handler starts with nothing written and no call made. *)
Begin(s) == [s EXCEPT !.tx = <<>>, !.engineCall = NoCall]

(* respDue follows the step: set when a query moves the group from         *)
(* IdleMember to DelayingMember, counted down by a tick, dropped when the  *)
(* group leaves DelayingMember.                                            *)
RespDueStep(tick) ==
    respDue' = [g \in Groups |->
        IF igmp'.engine[g].state # "DelayingMember" THEN -1
        ELSE IF igmp.engine[g].state = "IdleMember"
             THEN IF Pending(igmp'.engine[g].delayTimer)
                  THEN igmp'.engine[g].delayTimer[1] ELSE 0
        ELSE IF tick /\ respDue[g] > 0 THEN respDue[g] - 1
        ELSE respDue[g]]

(* A query that sets the flag: max response time 0, IGMP enabled. *)
IsV1Query(e, s) == e.op = "query" /\ e.maxResp = 0 /\ s.opts.Enabled

(* v1Clock follows the step: an IGMPv1 query restarts it and notes whether *)
(* it found the flag clear, or set with the earlier timer still running or *)
(* already due; a tick advances it.                                        *)
V1ClockStep(tick) ==
    v1Clock' =
        IF IsV1Query(event', igmp)
        THEN [age   |-> 0,
              found |-> IF ~v1Present(igmp) THEN "clear"
                        ELSE IF v1Clock.age = Ticks(v1RouterPresentTimeout)
                             THEN "due" ELSE "running"]
        ELSE [age   |-> IF tick /\ v1Clock.age >= 0
                                /\ v1Clock.age < Ticks(v1RouterPresentTimeout)
                        THEN v1Clock.age + 1 ELSE v1Clock.age,
              found |-> "none"]

(* armedV1 follows the step: the flag as it is when a delay timer is       *)
(* scheduled or rescheduled.                                               *)
ArmedStep(tick) ==
    armedV1' = [g \in Groups |->
        IF Pending(igmp'.engine[g].delayTimer)
        THEN IF ~tick /\ igmp'.engine[g].delayTimer # igmp.engine[g].delayTimer
             THEN igmp'.igmpV1Present
             ELSE armedV1[g]
        ELSE IF event'.op = "delayFires" /\ event'.group = g
             THEN armedV1[g]
             ELSE -1]

Init ==
    /\ \E enabled \in BOOLEAN : igmp = init([Enabled |-> enabled])
    /\ epEnabled = FALSE
    /\ event = NoEvent
    /\ respDue = [g \in Groups |-> -1]
    /\ option = <<>>
    /\ buf = <<>>
    /\ serializedLength = -1
    /\ v1Clock = [age |-> -1, found |-> "none"]
    /\ armedV1 = [g \in Groups |-> -1]

Joins(s) ==
    LET RECURSIVE Sum(_)
        Sum(S) == IF S = {} THEN 0
                  ELSE LET g == CHOOSE x \in S : TRUE
                       IN  s.engine[g].joinCount + Sum(S \ {g})
    IN  Sum(Groups)

Join(g) ==
    /\ Joins(igmp) < MaxJoins
    /\ \E rand \in 0..MaxRand, nicOk \in BOOLEAN :
          igmp' = joinGroup(Begin(igmp), g, epEnabled, rand, nicOk)
    /\ event' = Ev("joinGroup", g, 0, ErrNil)
    /\ RespDueStep(FALSE)
    /\ V1ClockStep(FALSE)
    /\ ArmedStep(FALSE)
    /\ UNCHANGED <<epEnabled, optVars>>

Leave(g) ==
    /\ \E nicOk \in BOOLEAN : igmp' = leaveGroup(Begin(igmp), g, nicOk)
    /\ event' = Ev("leaveGroup", g, 0, leaveGroupErr(igmp, g))
    /\ RespDueStep(FALSE)
    /\ V1ClockStep(FALSE)
    /\ ArmedStep(FALSE)
    /\ UNCHANGED <<epEnabled, optVars>>

ReceiveQuery(groupAddress, maxRespTime) ==
    /\ \E rand \in [Groups -> 0..MaxRand] :
          /\ groupAddress \in Groups =>
                \A g \in Groups \ {groupAddress} : rand[g] = 0
          /\ igmp' = handleIGMP(Begin(igmp), TRUE, IGMPMembershipQuery, groupAddress,
                                maxRespTime, rand)
    /\ event' = Ev("query", groupAddress, maxRespTime, ErrNil)
    /\ RespDueStep(FALSE)
    /\ V1ClockStep(FALSE)
    /\ ArmedStep(FALSE)
    /\ UNCHANGED <<epEnabled, optVars>>

(* A report, a message that is ignored (a leave, an unrecognized type), or *)
(* a message of any type that is too short or fails its checksum.          *)
ReceiveOther(valid, igmpType, groupAddress) ==
    /\ igmpType = IGMPMembershipQuery => ~valid
    /\ igmp' = handleIGMP(Begin(igmp), valid, igmpType, groupAddress, 0,
                          [g \in Groups |-> 0])
    /\ event' = IF valid /\ igmpType \in {IGMPv1MembershipReport,
                                           IGMPv2MembershipReport}
                THEN Ev("report", groupAddress, 0, ErrNil)
                ELSE Ev("ignored", IPv4Any, 0, ErrNil)
    /\ RespDueStep(FALSE)
    /\ V1ClockStep(FALSE)
    /\ ArmedStep(FALSE)
    /\ UNCHANGED <<epEnabled, optVars>>

DelayTimerFires(g) ==
    /\ Due(igmp.engine[g].delayTimer)
    /\ \E nicOk \in BOOLEAN : igmp' = DelayedReport(Begin(igmp), g, nicOk)
    /\ event' = Ev("delayFires", g, 0, ErrNil)
    /\ RespDueStep(FALSE)
    /\ V1ClockStep(FALSE)
    /\ ArmedStep(FALSE)
    /\ UNCHANGED <<epEnabled, optVars>>

V1TimerFires ==
    /\ Due(igmp.igmpV1Job)
    /\ igmp' = igmpV1JobFires(Begin(igmp))
    /\ event' = Ev("v1Fires", IPv4Any, 0, ErrNil)
    /\ RespDueStep(FALSE)
    /\ V1ClockStep(FALSE)
    /\ ArmedStep(FALSE)
    /\ UNCHANGED <<epEnabled, optVars>>

(* The endpoint is enabled: the flag is set and the groups initialized. *)
Enable ==
    /\ ~epEnabled
    /\ epEnabled' = TRUE
    /\ \E order \in Orders, rand \in [Groups -> 0..MaxRand],
          nicOk \in [Groups -> BOOLEAN] :
          igmp' = initializeAll(Begin(igmp), order, rand, nicOk)
    /\ event' = Ev("initializeAll", IPv4Any, 0, ErrNil)
    /\ RespDueStep(FALSE)
    /\ V1ClockStep(FALSE)
    /\ ArmedStep(FALSE)
    /\ UNCHANGED optVars

(* The endpoint is disabled: the groups are left softly and the flag       *)
(* cleared.                                                                *)
Disable ==
    /\ epEnabled
    /\ epEnabled' = FALSE
    /\ \E order \in Orders, nicOk \in [Groups -> BOOLEAN] :
          igmp' = softLeaveAll(Begin(igmp), order, nicOk)
    /\ event' = Ev("softLeaveAll", IPv4Any, 0, ErrNil)
    /\ RespDueStep(FALSE)
    /\ V1ClockStep(FALSE)
    /\ ArmedStep(FALSE)
    /\ UNCHANGED optVars

(* A tick passes once every due timer has fired. *)
Tick ==
    /\ ~Due(igmp.igmpV1Job)
    /\ \A g \in Groups : ~Due(igmp.engine[g].delayTimer)
    /\ Pending(igmp.igmpV1Job) \/ \E g \in Groups : Pending(igmp.engine[g].delayTimer)
    /\ igmp' = [Begin(igmp) EXCEPT
                  !.igmpV1Job = Elapse(@),
                  !.engine = [g \in Groups |->
                                 [@[g] EXCEPT !.delayTimer = Elapse(@)]]]
    /\ event' = Ev("tick", IPv4Any, 0, ErrNil)
    /\ RespDueStep(TRUE)
    /\ V1ClockStep(TRUE)
    /\ ArmedStep(TRUE)
    /\ UNCHANGED <<epEnabled, optVars>>

Next ==
    \/ \E g \in Groups : Join(g)
    \/ \E g \in Groups : Leave(g)
    \/ \E a \in Groups \cup {IPv4Any}, m \in 0..MaxQueryResp : ReceiveQuery(a, m)
    \/ \E valid \in BOOLEAN,
          t \in {IGMPMembershipQuery, IGMPv1MembershipReport, IGMPv2MembershipReport,
                 IGMPLeaveGroup, IGMPUnrecognized},
          a \in Groups : ReceiveOther(valid, t, a)
    \/ \E g \in Groups : DelayTimerFires(g)
    \/ V1TimerFires
    \/ Enable
    \/ Disable
    \/ Tick

Spec == Init /\ [][Next]_vars

(* Some timer is pending: the clock of the model runs. *)
TimerPending ==
    Pending(igmp.igmpV1Job) \/ \E g \in Groups : Pending(igmp.engine[g].delayTimer)

(* The scheduler runs the callback of every due timer, and time passes:    *)
(* no run holds infinitely many events in a bounded time, so while timers  *)
(* stay pending the clock ticks again and again.                           *)
FairSpec ==
    /\ Spec
    /\ SF_vars(Tick)
    /\ ([]<>~TimerPending) \/ ([]<><<Tick>>_vars)
    /\ WF_vars(V1TimerFires)
    /\ \A g \in Groups : WF_vars(DelayTimerFires(g))

(* The serializer on its own: a list of options and a buffer filled with   *)
(* 0xFF that holds Length() bytes or one more, then one call of Serialize. *)
OptionLists ==
    UNION {[1..n -> IPv4SerializableOption] : n \in 0..MaxOptions}

OptInit ==
    /\ igmp = init([Enabled |-> FALSE])
    /\ epEnabled = FALSE
    /\ event = NoEvent
    /\ respDue = [g \in Groups |-> -1]
    /\ option \in OptionLists
    /\ \E extra \in 0..1 : buf = [k \in 1..(Length(option) + extra) |-> 255]
    /\ serializedLength = -1
    /\ v1Clock = [age |-> -1, found |-> "none"]
    /\ armedV1 = [g \in Groups |-> -1]

SerializeOptions ==
    /\ serializedLength = -1
    /\ buf' = Serialize(option, buf).b
    /\ serializedLength' = Serialize(option, buf).n
    /\ UNCHANGED <<igmp, epEnabled, event, respDue, option, v1Clock, armedV1>>

OptNext == SerializeOptions

OptSpec == OptInit /\ [][OptNext]_vars


---------------------------------------------------------------------------
(* Properties. *)

(* The interface is enabled: IGMP is enabled in the options and the        *)
(* endpoint is enabled.                                                    *)
IfaceEnabled == igmp.opts.Enabled /\ epEnabled

Packets(s) == {s.tx[i] : i \in 1..Len(s.tx)}

Reports(s) == {p \in Packets(s) : p.via = "SendReport"}

Leaves(s) == {p \in Packets(s) : p.type = IGMPLeaveGroup}

(* C1: every report SendReport writes is a V1MembershipReport when the     *)
(* IGMPv1-router-present flag is set and a V2MembershipReport otherwise,   *)
(* and goes to the group it reports; a report never has another type.  No  *)
(* handler that writes a report changes the flag, so the flag of the state *)
(* is the flag SendReport read.                                            *)
C1_ReportTypeFollowsV1Flag ==
    \A p \in Reports(igmp) :
        /\ p.type = IF v1Present(igmp) THEN IGMPv1MembershipReport
                                       ELSE IGMPv2MembershipReport
        /\ p.dst = p.group

(* SendReport has written a V1 report to its group while the flag is set. *)
C1_Witness ==
    /\ v1Present(igmp)
    /\ \E p \in Reports(igmp) : p.type = IGMPv1MembershipReport /\ p.dst \in Groups

(* C2: while the IGMPv1-router-present flag is set no LeaveGroup packet is *)
(* written, and leaveGroup of a joined group then writes none, leaves      *)
(* PacketsSent.LeaveGroup as it was and returns nil.                       *)
C2_LeaveSuppressedWhenV1Present ==
    [][/\ v1Present(igmp') => Leaves(igmp') = {}
       /\ \A g \in Groups :
             (/\ event'.op = "leaveGroup" /\ event'.group = g
              /\ igmp.engine[g].joinCount > 0
              /\ v1Present(igmp))
             => /\ Leaves(igmp') = {}
                /\ SentCount(igmp', IGMPLeaveGroup) = 0
                /\ event'.ret = ErrNil]_vars

(* The last leave of a group of an enabled interface, with the flag set:   *)
(* the group is gone and nothing was written.                              *)
C2_Witness ==
    /\ IfaceEnabled /\ v1Present(igmp)
    /\ event.op = "leaveGroup" /\ event.ret = ErrNil
    /\ igmp.engine[event.group] = NoGroup
    /\ igmp.tx = <<>>

(* C3: a query with max response time 0, IGMP enabled, sets the flag,      *)
(* leaves igmpV1Job with exactly one pending timer, due in 400 s, and      *)
(* hands the engine the query with a max response time of 10 s; a query    *)
(* with a max response time above 0 leaves the flag and the job alone and  *)
(* hands the engine its own max response time.                             *)
C3_V1QuerySetsFlagAndTimer ==
    [][event'.op = "query" =>
         /\ (event'.maxResp = 0 /\ igmp.opts.Enabled) =>
               /\ igmp'.igmpV1Present = 1
               /\ igmp'.igmpV1Job = <<Ticks(v1RouterPresentTimeout)>>
               /\ Ticks(v1RouterPresentTimeout) * TickSeconds = 400
               /\ igmp'.engineCall = [op      |-> "HandleQuery",
                                      group   |-> event'.group,
                                      maxResp |-> Ticks(v1MaxRespTime)]
               /\ Ticks(v1MaxRespTime) * TickSeconds = 10
         /\ event'.maxResp > 0 =>
               /\ igmp'.igmpV1Present = igmp.igmpV1Present
               /\ igmp'.igmpV1Job = igmp.igmpV1Job
               /\ igmp'.engineCall = [op      |-> "HandleQuery",
                                      group   |-> event'.group,
                                      maxResp |-> event'.maxResp]]_vars

(* An IGMPv1 query for a group has been handled and the engine has acted   *)
(* on it: the group went from IdleMember to DelayingMember.                *)
C3_Witness ==
    /\ event.op = "query" /\ event.maxResp = 0 /\ event.group \in Groups
    /\ igmp.opts.Enabled
    /\ igmp.igmpV1Job = <<Ticks(v1RouterPresentTimeout)>>
    /\ igmp.engine[event.group].state = "DelayingMember"
    /\ respDue[event.group] >= 0

(* C4: with IGMP not enabled in the options, the flag is never set and     *)
(* igmpV1Job never pending, whatever queries are handled.                  *)
C4_NoV1WhenDisabled ==
    ~igmp.opts.Enabled => /\ igmp.igmpV1Present = 0
                          /\ igmp.igmpV1Job = <<>>

(* A query with max response time 0 has been handled with IGMP not         *)
(* enabled.                                                                *)
C4_Witness ==
    /\ ~igmp.opts.Enabled
    /\ event.op = "query" /\ event.maxResp = 0
    /\ igmp.engineCall.op = "HandleQuery"

(* C5, as claimed: a group is NonMember exactly when it has no local join. *)
C5_NonMemberIffNoJoin ==
    \A g \in Groups :
        igmp.engine[g].state = "NonMember" <=> igmp.engine[g].joinCount = 0

(* C5, amended: a group with no local join is NonMember; a NonMember group *)
(* has no local join while the interface is enabled.  A group joined while *)
(* the interface is disabled, or left softly, is NonMember and joined.     *)
C5_NonMemberIffNoJoinWhileEnabled ==
    \A g \in Groups :
        /\ igmp.engine[g].joinCount = 0 => igmp.engine[g].state = "NonMember"
        /\ (IfaceEnabled /\ igmp.engine[g].state = "NonMember")
              => igmp.engine[g].joinCount = 0

(* A group joined while the endpoint was disabled has been initialized by  *)
(* initializeAll.                                                          *)
C5_Witness ==
    /\ IfaceEnabled /\ event.op = "initializeAll"
    /\ \E g \in Groups : /\ igmp.engine[g].joinCount > 0
                         /\ igmp.engine[g].state = "DelayingMember"

(* C6: a group has at most one pending delay timer, and has one only while *)
(* it is DelayingMember.                                                   *)
C6_AtMostOneDelayTimer ==
    \A g \in Groups :
        /\ Len(igmp.engine[g].delayTimer) <= 1
        /\ Pending(igmp.engine[g].delayTimer)
              => igmp.engine[g].state = "DelayingMember"

(* A query has rescheduled a pending timer to a sooner deadline: the group *)
(* was due to answer an earlier query one tick from now and its one timer  *)
(* is due now.                                                             *)
C6_Witness ==
    /\ event.op = "query"
    /\ \E g \in Groups : /\ respDue[g] = 1
                         /\ igmp.engine[g].state = "DelayingMember"
                         /\ igmp.engine[g].delayTimer = <<0>>

(* C7: leaveGroup of a group with no local join returns ErrBadLocalAddress,*)
(* writes nothing and changes no group, neither job nor the flag;          *)
(* leaveGroup of a joined group returns nil.                               *)
C7_LeaveNotJoined ==
    [][\A g \in Groups :
         (event'.op = "leaveGroup" /\ event'.group = g) =>
           /\ igmp.engine[g].joinCount = 0 =>
                 /\ event'.ret = ErrBadLocalAddress
                 /\ igmp'.tx = <<>>
                 /\ igmp'.engine = igmp.engine
                 /\ igmp'.igmpV1Present = igmp.igmpV1Present
                 /\ igmp'.igmpV1Job = igmp.igmpV1Job
           /\ igmp.engine[g].joinCount > 0 => event'.ret = ErrNil]_vars

(* leaveGroup has failed for one group while the other is joined, with its *)
(* timer pending, and the flag is set.                                     *)
C7_Witness ==
    /\ event.op = "leaveGroup" /\ event.ret = ErrBadLocalAddress
    /\ v1Present(igmp)
    /\ \E g \in Groups \ {event.group} : Pending(igmp.engine[g].delayTimer)

(* C8: on an enabled interface with the flag clear, the last leave of a    *)
(* DelayingMember or IdleMember group that reported last writes exactly    *)
(* one packet, a LeaveGroup for the group to the all-routers address,      *)
(* cancels the delay timer and makes the group NonMember; if the group did *)
(* not report last, no LeaveGroup is written.  (Written: handed to         *)
(* nic.WritePacketToRemote.)                                               *)
C8_LastLeaveSendsLeave ==
    [][\A g \in Groups :
         (/\ event'.op = "leaveGroup" /\ event'.group = g
          /\ igmp.engine[g].joinCount = 1
          /\ igmp.engine[g].state \in {"DelayingMember", "IdleMember"}
          /\ IfaceEnabled
          /\ ~v1Present(igmp))
         => /\ igmp.engine[g].lastReporter =>
                  /\ Len(igmp'.tx) = 1
                  /\ igmp'.tx[1].type = IGMPLeaveGroup
                  /\ igmp'.tx[1].dst = IPv4AllRoutersGroup
                  /\ igmp'.tx[1].group = g
            /\ ~igmp.engine[g].lastReporter => Leaves(igmp') = {}
            /\ igmp'.engine[g].delayTimer = <<>>
            /\ igmp'.engine[g].state = "NonMember"]_vars

(* A last leave has written a LeaveGroup that the NIC accepted. *)
C8_Witness ==
    /\ event.op = "leaveGroup" /\ event.ret = ErrNil
    /\ IfaceEnabled /\ ~v1Present(igmp)
    /\ igmp.engine[event.group] = NoGroup
    /\ SentCount(igmp, IGMPLeaveGroup) = 1

(* The steps of C9.  A query for a group or a general query matches an     *)
(* IdleMember group; its max response time is the one handed to the        *)
(* engine.                                                                 *)
C9_QuerySchedules ==
    \A g \in Groups :
        (/\ event'.op = "query" /\ event'.group \in {g, IPv4Any}
         /\ IfaceEnabled
         /\ igmp.engine[g].state = "IdleMember")
        => /\ igmp'.engine[g].state = "DelayingMember"
           /\ Len(igmp'.engine[g].delayTimer) = 1
           /\ igmp'.engine[g].delayTimer[1] \in 0..igmp'.engineCall.maxResp
           /\ respDue'[g] = igmp'.engine[g].delayTimer[1]

C9_OnlyTheTimerReports ==
    \A g \in Groups :
        (respDue[g] >= 0 /\ \E p \in Reports(igmp') : p.group = g)
        => event'.op = "delayFires" /\ event'.group = g

C9_FiringReportsOnce ==
    \A g \in Groups :
        (event'.op = "delayFires" /\ event'.group = g /\ respDue[g] >= 0)
        => /\ Len(igmp'.tx) = 1
           /\ igmp'.tx[1].via = "SendReport"
           /\ igmp'.tx[1].dst = g
           /\ igmp'.engine[g].state = "IdleMember"
           /\ igmp'.engine[g].lastReporter
           /\ igmp'.engine[g].delayTimer = <<>>

(* The report is due at t + d or sooner. *)
C9_DueByDeadline ==
    \A g \in Groups :
        respDue'[g] >= 0
        => /\ igmp'.engine[g].state = "DelayingMember"
           /\ Len(igmp'.engine[g].delayTimer) = 1
           /\ igmp'.engine[g].delayTimer[1] <= respDue'[g]

(* The report is written at t + d, not before. *)
C9_NotBeforeDeadline ==
    \A g \in Groups :
        (event'.op = "delayFires" /\ event'.group = g /\ respDue[g] >= 0)
        => respDue[g] = 0

(* Under FairSpec the pending answer ends: the timer fires, or a peer      *)
(* report, a leave or a soft leave takes the group out of DelayingMember.  *)
C9_AnswerEnds == \A g \in Groups : (respDue[g] >= 0) ~> (respDue[g] = -1)

(* C9, as claimed: a matching query moves an IdleMember group of an        *)
(* enabled interface to DelayingMember with a delay d in [0, M], and       *)
(* unless a peer report, a leave or a soft leave intervenes exactly one    *)
(* report to the group is written at t + d, after which the group is       *)
(* IdleMember, reported last and has no timer.                             *)
C9_ReportAtDeadline ==
    [][/\ C9_QuerySchedules
       /\ C9_OnlyTheTimerReports
       /\ C9_FiringReportsOnce
       /\ C9_DueByDeadline
       /\ C9_NotBeforeDeadline]_vars

(* C9, amended: as claimed, but the report is written at t + d or sooner:  *)
(* a further matching query that draws a sooner deadline reschedules the   *)
(* timer.                                                                  *)
C9_ReportByDeadline ==
    /\ [][/\ C9_QuerySchedules
          /\ C9_OnlyTheTimerReports
          /\ C9_FiringReportsOnce
          /\ C9_DueByDeadline]_vars
    /\ C9_AnswerEnds

(* A query moved a group to DelayingMember with a delay of one tick or     *)
(* more, the time has passed, and at t + d its one timer is due.           *)
C9_Witness ==
    /\ event.op = "tick" /\ IfaceEnabled
    /\ \E g \in Groups : /\ respDue[g] = 0
                         /\ igmp.engine[g].state = "DelayingMember"
                         /\ igmp.engine[g].delayTimer = <<0>>

(* The two runs of C10 from the state at hand, with the same order of     *)
(* visit, the same random source and the same NIC in every call.           *)
InitOnce(order, rand, nicOk) == initializeAll(Begin(igmp), order, rand, nicOk)

InitLeaveInit(order, rand, nicOk) ==
    initializeAll(softLeaveAll(InitOnce(order, rand, nicOk), order, nicOk),
                  order, rand, nicOk)

IsPrefix(a, b) == Len(a) <= Len(b) /\ \A i \in 1..Len(a) : a[i] = b[i]

(* C10, as claimed: where the endpoint may be enabled, initializeAll;      *)
(* softLeaveAll; initializeAll ends with the groups (states, lastReporter, *)
(* timers, join counts) of a single initializeAll and has written the same *)
(* packets.                                                                *)
C10_ReinitializeEquivalent ==
    ~epEnabled =>
        \A order \in Orders, rand \in [Groups -> 0..MaxRand],
           nicOk \in [Groups -> BOOLEAN] :
            /\ InitLeaveInit(order, rand, nicOk).engine
                  = InitOnce(order, rand, nicOk).engine
            /\ InitLeaveInit(order, rand, nicOk).tx = InitOnce(order, rand, nicOk).tx

(* C10, amended: the groups end the same, but not the packets: the         *)
(* sequence writes the reports of the single initializeAll, then a         *)
(* LeaveGroup for every group it initialized (none while the flag is set), *)
(* then the reports again.                                                 *)
C10_ReinitializeSameGroupsMorePackets ==
    ~epEnabled =>
        \A order \in Orders, rand \in [Groups -> 0..MaxRand],
           nicOk \in [Groups -> BOOLEAN] :
            LET a == InitOnce(order, rand, nicOk)
                b == InitLeaveInit(order, rand, nicOk)
                n == Len(a.tx)
            IN  /\ b.engine = a.engine
                /\ IsPrefix(a.tx, b.tx)
                /\ Len(b.tx) = IF v1Present(igmp) THEN 2 * n ELSE 3 * n
                /\ \A i \in 1..n : b.tx[Len(b.tx) - n + i] = a.tx[i]
                /\ \A i \in (n + 1)..(Len(b.tx) - n) :
                      /\ b.tx[i].type = IGMPLeaveGroup
                      /\ b.tx[i].group = a.tx[i - n].group
                /\ n = Cardinality({g \in Groups : igmp.opts.Enabled
                                        /\ igmp.engine[g].joinCount > 0})

(* initializeAll and softLeaveAll have run with a group joined and IGMP    *)
(* enabled, and the endpoint may be enabled again.                         *)
C10_Witness ==
    /\ ~epEnabled /\ igmp.opts.Enabled
    /\ event.op = "softLeaveAll"
    /\ \E p \in Leaves(igmp) : igmp.engine[p.group].joinCount > 0

(* The Join action has been performed for g between s and s1: one report   *)
(* for g written, its one timer scheduled, lastReporter set,               *)
(* DelayingMember.                                                         *)
JoinPerformed(s, s1, g) ==
    /\ s.engine[g].state = "NonMember"
    /\ s1.engine[g].state = "DelayingMember"
    /\ s1.engine[g].lastReporter
    /\ Len(s1.engine[g].delayTimer) = 1
    /\ s1.engine[g].delayTimer[1] \in 0..MaxUnsolicitedReportDelay
    /\ Cardinality({i \in 1..Len(s1.tx) :
                       s1.tx[i].via = "SendReport" /\ s1.tx[i].group = g}) = 1

(* softLeaveAll from the state at hand: every group is NonMember with no   *)
(* pending timer, and is joined locally exactly as before.                 *)
SoftLeaveFrame ==
    \A order \in Orders, nicOk \in [Groups -> BOOLEAN] :
        LET b == softLeaveAll(Begin(igmp), order, nicOk)
        IN  \A g \in Groups :
               /\ b.engine[g].state = "NonMember"
               /\ b.engine[g].delayTimer = <<>>
               /\ isInGroup(b, g) = isInGroup(igmp, g)
               /\ b.engine[g].joinCount = igmp.engine[g].joinCount

(* initializeAll from s performs the Join action for the groups that are   *)
(* joined and NonMember (where gate holds) and leaves the others alone.    *)
InitializesExactly(s, gate) ==
    \A order \in Orders, rand \in [Groups -> 0..MaxRand],
       nicOk \in [Groups -> BOOLEAN] :
        LET c == initializeAll(Begin(s), order, rand, nicOk)
        IN  \A g \in Groups :
               IF gate /\ s.engine[g].joinCount > 0
                       /\ s.engine[g].state = "NonMember"
               THEN JoinPerformed(s, c, g)
               ELSE /\ c.engine[g] = s.engine[g]
                    /\ \A i \in 1..Len(c.tx) : c.tx[i].group # g

(* C11, as claimed: softLeaveAll moves every group to NonMember with no    *)
(* pending delay timer, isInGroup answers for every group as before, and a *)
(* later initializeAll performs the Join action for exactly the groups     *)
(* with joinCount > 0 that are NonMember.  Both are applied to every       *)
(* reachable state, the states softLeaveAll has left among them.           *)
C11_SoftLeaveKeepsJoins ==
    SoftLeaveFrame /\ InitializesExactly(igmp, TRUE)

(* C11, amended: as claimed where IGMP is enabled in the options; where it *)
(* is not, initializeAll performs no Join action: the joined groups stay   *)
(* NonMember and nothing is written.                                       *)
C11_SoftLeaveKeepsJoinsInitIfEnabled ==
    SoftLeaveFrame /\ InitializesExactly(igmp, igmp.opts.Enabled)

(* softLeaveAll has taken a joined group that reported last to NonMember,  *)
(* with a leave written, while the other group is not joined; the joined   *)
(* group is then one initializeAll will initialize.                        *)
C11_Witness ==
    /\ event.op = "softLeaveAll" /\ igmp.opts.Enabled
    /\ \E g \in Groups :
          /\ isInGroup(igmp, g)
          /\ igmp.engine[g].state = "NonMember"
          /\ \E p \in Leaves(igmp) : p.group = g
          /\ \E h \in Groups \ {g} : ~isInGroup(igmp, h)

(* No group has a pending delay timer. *)
NoDelayTimer(s) == \A g \in Groups : s.engine[g].delayTimer = <<>>

C13_V1TimerArmedIffFlag ==
    /\ Pending(igmp.igmpV1Job) <=> v1Present(igmp)
    /\ Len(igmp.igmpV1Job) <= 1

(* igmpV1Job has fired and cleared the flag while a group is joined. *)
C13_Witness ==
    /\ event.op = "v1Fires"
    /\ ~v1Present(igmp) /\ ~Pending(igmp.igmpV1Job)
    /\ \E g \in Groups : isInGroup(igmp, g)

(* The bytes of one option on the wire. *)
WireBytes(opt) ==
    CASE opt = IPv4SerializableNOPOption -> <<1>>
      [] opt = IPv4SerializableListEndOption -> <<0>>
      [] opt = IPv4SerializableRouterAlertOption -> <<148, 4, 0, 0>>

RECURSIVE Concatenated(_, _)
Concatenated(s, i) ==
    IF i > Len(s) THEN <<>> ELSE WireBytes(s[i]) \o Concatenated(s, i + 1)

(* C14: for every list of NOP, End-of-list and Router Alert options,       *)
(* Length() is the length of the options' bytes rounded up to a multiple   *)
(* of 4, Serialize returns Length(), and the buffer, filled with 0xFF      *)
(* before, holds the options' bytes in input order, then zero bytes up to  *)
(* Length(), and is untouched beyond; [NOP, RouterAlert] gives             *)
(* 01 94 04 00 00 00 00 00.                                                *)
C14_SerializeWritesLength ==
    serializedLength # -1 =>
        LET content == Concatenated(option, 1)
            l == Length(option)
        IN  /\ l % 4 = 0 /\ l >= Len(content) /\ l < Len(content) + 4
            /\ serializedLength = l
            /\ Len(buf) >= l
            /\ SubSeq(buf, 1, Len(content)) = content
            /\ \A k \in (Len(content) + 1)..l : buf[k] = 0
            /\ \A k \in (l + 1)..Len(buf) : buf[k] = 255
            /\ option = <<IPv4SerializableNOPOption,
                          IPv4SerializableRouterAlertOption>>
                  => SubSeq(buf, 1, l) = <<1, 148, 4, 0, 0, 0, 0, 0>>

(* [NOP, RouterAlert] has been serialized into eight bytes of 0xFF. *)
C14_Witness ==
    /\ serializedLength = 8
    /\ option = <<IPv4SerializableNOPOption, IPv4SerializableRouterAlertOption>>
    /\ Len(buf) = 8

(* The reports a handler has written for group g. *)
ReportsFor(s, g) == {p \in Reports(s) : p.group = g}

(* C15: a peer's report for G, valid and of either version, while G is     *)
(* DelayingMember on an interface with IGMP enabled cancels G's delay      *)
(* timer, clears lastReporter and makes G IdleMember, and writes nothing;  *)
(* in any other state of G it changes nothing; it never changes another    *)
(* group, the flag or igmpV1Job.  No report for G is written while G is    *)
(* IdleMember, lastReporter(G) is set again only by a step that writes a   *)
(* report for G, and a leaveGroup(G) while lastReporter(G) is false writes *)
(* no LeaveGroup.                                                          *)
C15_PeerReportSuppresses ==
    [][\A g \in Groups :
         /\ (event'.op = "report" /\ event'.group = g) =>
               /\ igmp'.tx = <<>>
               /\ igmp'.engineCall.op = "HandleReport"
               /\ igmp'.engineCall.group = g
               /\ igmp'.engine[g] =
                     IF igmp.opts.Enabled /\ igmp.engine[g].state = "DelayingMember"
                     THEN [state        |-> "IdleMember",
                           joinCount    |-> igmp.engine[g].joinCount,
                           lastReporter |-> FALSE,
                           delayTimer   |-> <<>>]
                     ELSE igmp.engine[g]
               /\ \A h \in Groups \ {g} : igmp'.engine[h] = igmp.engine[h]
               /\ igmp'.igmpV1Present = igmp.igmpV1Present
               /\ igmp'.igmpV1Job = igmp.igmpV1Job
         /\ igmp.engine[g].state = "IdleMember" => ReportsFor(igmp', g) = {}
         /\ (igmp'.engine[g].lastReporter /\ ~igmp.engine[g].lastReporter)
               => ReportsFor(igmp', g) # {}
         /\ (/\ event'.op = "leaveGroup" /\ event'.group = g
             /\ ~igmp.engine[g].lastReporter)
               => Leaves(igmp') = {}]_vars

(* After a peer's report for the group, its last leave on an enabled       *)
(* interface with the flag clear has written nothing.                      *)
C15_Witness ==
    /\ event.op = "leaveGroup" /\ event.ret = ErrNil
    /\ IfaceEnabled /\ ~v1Present(igmp)
    /\ igmp.engine[event.group] = NoGroup
    /\ igmp.tx = <<>>

(* C16: a query, general or for a group, never postpones the pending       *)
(* report of a DelayingMember group: the group stays DelayingMember with   *)
(* one timer, whose deadline is the one before or a strictly earlier one   *)
(* within the max response time handed to the engine; a query for another  *)
(* group leaves the timer alone.                                           *)
C16_QueryNeverPostpones ==
    [][\A g \in Groups :
         (/\ event'.op = "query"
          /\ igmp.engine[g].state = "DelayingMember"
          /\ Len(igmp.engine[g].delayTimer) = 1)
         => /\ igmp'.engine[g].state = "DelayingMember"
            /\ Len(igmp'.engine[g].delayTimer) = 1
            /\ igmp'.engine[g].delayTimer[1] <= igmp.engine[g].delayTimer[1]
            /\ igmp'.engine[g].delayTimer[1] # igmp.engine[g].delayTimer[1]
                  => /\ igmp'.engine[g].delayTimer[1] < igmp.engine[g].delayTimer[1]
                     /\ igmp'.engine[g].delayTimer[1] \in 0..igmp'.engineCall.maxResp
                     /\ event'.group \in {g, IPv4Any}
            /\ igmp'.engine[g].joinCount = igmp.engine[g].joinCount
            /\ igmp'.engine[g].lastReporter = igmp.engine[g].lastReporter]_vars

(* A matching query has been handled while the group was DelayingMember    *)
(* after its join (not after a query), and the timer is pending.           *)
C16_Witness ==
    /\ event.op = "query" /\ IfaceEnabled
    /\ \E g \in Groups : /\ event.group \in {g, IPv4Any}
                         /\ igmp.engine[g].state = "DelayingMember"
                         /\ respDue[g] = -1
                         /\ Len(igmp.engine[g].delayTimer) = 1

C18_FlagSteps ==
    /\ (~v1Present(igmp) /\ v1Present(igmp')) => IsV1Query(event', igmp)
    /\ (v1Present(igmp) /\ ~v1Present(igmp'))
          => event'.op = "v1Fires" /\ igmp.igmpV1Job = <<0>>
    /\ event'.op = "v1Fires" => ~v1Present(igmp') /\ igmp'.igmpV1Job = <<>>
    /\ ~v1Present(igmp') =>
          \A p \in Reports(igmp') : p.type = IGMPv2MembershipReport
    /\ \A g \in Groups :
          (/\ ~v1Present(igmp) /\ IfaceEnabled
           /\ event'.op = "leaveGroup" /\ event'.group = g
           /\ igmp.engine[g].joinCount = 1
           /\ igmp.engine[g].state # "NonMember"
           /\ igmp.engine[g].lastReporter)
          => Cardinality({i \in 1..Len(igmp'.tx) :
                             igmp'.tx[i].type = IGMPLeaveGroup}) = 1

(* Time passes after the timer is armed: 400 s left become 390 s. *)
C18_ArmedTimerRuns ==
    (igmp.igmpV1Job = <<Ticks(v1RouterPresentTimeout)>>)
        ~> (igmp.igmpV1Job = <<Ticks(v1RouterPresentTimeout) - 1>>)

(* A running timer ends with the flag cleared, unless a further IGMPv1     *)
(* query arms it anew (only that puts 400 s on it).                        *)
C18_RunningTimerClears ==
    (Pending(igmp.igmpV1Job)
       /\ igmp.igmpV1Job # <<Ticks(v1RouterPresentTimeout)>>)
        ~> (~v1Present(igmp)
              \/ igmp.igmpV1Job = <<Ticks(v1RouterPresentTimeout)>>)

(* C18: under fair scheduling of timers, once an IGMPv1 query has set the  *)
(* flag and no further one is handled, the flag is eventually cleared, by  *)
(* the firing of igmpV1Job, and stays clear until the next IGMPv1 query;   *)
(* with the flag clear reports are V2 again and leaves are written.        *)
C18_FlagEventuallyCleared ==
    /\ [][C18_FlagSteps]_vars
    /\ C18_ArmedTimerRuns
    /\ C18_RunningTimerClears

(* igmpV1Job has fired and cleared the flag while a group's delayed report *)
(* is due: it will be written as V2.                                       *)
C18_Witness ==
    /\ event.op = "v1Fires" /\ ~v1Present(igmp)
    /\ \E g \in Groups : /\ igmp.engine[g].state = "DelayingMember"
                         /\ Due(igmp.engine[g].delayTimer)

(* C19: the flag stays set for the full 400 s that follow the most         *)
(* recently handled IGMPv1 query, whatever the order of that query and the *)
(* firing of the timer an earlier query armed: an IGMPv1 query sets the    *)
(* flag and leaves one timer of 400 s, the flag is set while less than     *)
(* 400 s have passed since, and igmpV1Job fires, and the flag is cleared,  *)
(* only when 400 s have passed since.                                      *)
C19_FlagHeldFor400s ==
    [][/\ IsV1Query(event', igmp) =>
             /\ v1Present(igmp')
             /\ igmp'.igmpV1Job = <<Ticks(v1RouterPresentTimeout)>>
             /\ v1Clock'.age = 0
       /\ (v1Clock'.age >= 0 /\ v1Clock'.age < Ticks(v1RouterPresentTimeout))
             => v1Present(igmp')
       /\ (event'.op = "v1Fires" \/ (v1Present(igmp) /\ ~v1Present(igmp')))
             => /\ v1Clock.age = Ticks(v1RouterPresentTimeout)
                /\ v1Clock.age * TickSeconds = 400]_vars

(* An IGMPv1 query has been handled while the timer of an earlier one was  *)
(* due and its callback had not yet run: the flag is set and the one       *)
(* pending timer has 400 s to go.                                          *)
C19_Witness ==
    /\ v1Clock.found = "due"
    /\ v1Present(igmp)
    /\ igmp.igmpV1Job = <<Ticks(v1RouterPresentTimeout)>>

(* C20: the version of a report is that of the flag when it is written,    *)
(* not when its timer was scheduled: the one report a firing delay timer   *)
(* writes is V1 if the flag is set then and V2 if it is clear, whatever    *)
(* the flag was when the timer was scheduled.  Likewise the last leave of  *)
(* a group that reported last, on an enabled interface, writes no          *)
(* LeaveGroup if the flag is set at the leave and one if it is clear.      *)
C20_VersionDecidedAtTransmit ==
    [][\A g \in Groups :
         /\ (event'.op = "delayFires" /\ event'.group = g) =>
               /\ Len(igmp'.tx) = 1
               /\ igmp'.tx[1].via = "SendReport"
               /\ igmp'.tx[1].group = g
               /\ igmp'.tx[1].type = IF v1Present(igmp)
                                     THEN IGMPv1MembershipReport
                                     ELSE IGMPv2MembershipReport
               /\ armedV1[g] \in {0, 1}
               /\ (armedV1[g] = 0 /\ v1Present(igmp))
                     => igmp'.tx[1].type = IGMPv1MembershipReport
               /\ (armedV1[g] = 1 /\ ~v1Present(igmp))
                     => igmp'.tx[1].type = IGMPv2MembershipReport
         /\ (/\ event'.op = "leaveGroup" /\ event'.group = g
             /\ IfaceEnabled
             /\ igmp.engine[g].joinCount = 1
             /\ igmp.engine[g].state # "NonMember"
             /\ igmp.engine[g].lastReporter) =>
               /\ v1Present(igmp) => igmp'.tx = <<>>
               /\ ~v1Present(igmp) =>
                     /\ Len(igmp'.tx) = 1
                     /\ igmp'.tx[1].type = IGMPLeaveGroup
         /\ igmp'.engine[g].delayTimer # igmp.engine[g].delayTimer
               /\ Pending(igmp'.engine[g].delayTimer) /\ event'.op # "tick"
               => armedV1'[g] = igmp'.igmpV1Present]_vars

(* A delay timer scheduled while the flag was clear has fired after an     *)
(* IGMPv1 query set the flag: its report was written as V1.                *)
C20_Witness ==
    /\ event.op = "delayFires"
    /\ armedV1[event.group] = 0
    /\ v1Present(igmp)
    /\ Len(igmp.tx) = 1 /\ igmp.tx[1].type = IGMPv1MembershipReport

=============================================================================
